---- MODULE Spec2Model ----
(***************************************************************************)
(* Model of the "Clashes" filter pipeline: the filterClashes server        *)
(* action, the GET route handler of /api/clashes, the useClashes hook      *)
(* (route-handler and direct server-action versions) and the list view.    *)
(*                                                                         *)
(* Strings are sequences of one-character strings; an optional value       *)
(* (string | null | undefined) is a sequence of length 0 (absent) or 1.    *)
(***************************************************************************)
EXTENDS Integers, Sequences, FiniteSets, TLC

VARIABLES
    backend,     \* data.clashes as the GraphQL service returns it
    fTerm,       \* the argument of filterClashes / the term parameter of the request
    fOutcome,    \* what getClient().query does: resolves, or rejects with a cause
    fPc,         \* "start" | "action" (filterClashes was called) | "route" (GET was called)
    fResult,     \* what filterClashes returned or threw
    fResponse    \* the NextResponse of GET

VARIABLES
    hookVersion, \* which use-clashes.ts is built: "route" (fetch /api/clashes) or "direct"
    mounted,     \* the initial-load effect of useClashes has run
    clashes,     \* useState<ClashFromQuery[]>([])
    loading,     \* useState(true)
    error,       \* useState<string | null>(null)
    inflight,    \* the fetchClashes calls suspended at their await: [id, term]
    issued,      \* number of fetchClashes calls so far; call ids are 1..issued
    replies      \* history: what each settled call got back from its await, by id

filterVars == <<backend, fTerm, fOutcome, fPc, fResult, fResponse>>
hookVars == <<hookVersion, mounted, clashes, loading, error, inflight, issued, replies>>

VARIABLES
    filterVariant, \* which clash-filter.tsx is built: "explicit" (search button) or "debounced"
    searchTerm,    \* ClashFilter: useState('')
    timer,         \* debounce: the pending setTimeout, if any: [term, user]
    unmounted,     \* the page with ClashList has been left
    causes,        \* history: what started each fetchClashes call, by id
    burst          \* history: [typed, fired]: whether the user has edited the input since
                   \* ClashFilter mounted, and the terms passed to onFilter since the last edit

viewVars == <<filterVariant, searchTerm, timer, unmounted, causes, burst>>

VARIABLES
    cPc,         \* createClash: "idle" | "validating" | "submitting" | "invalid" | "failed" | "redirected"
    cFormData,   \* formValues of the submission being handled (or handled last)
    cState,      \* ClashCreate: state of useActionState(createClash, initialState)
    cPending,    \* ClashCreate: pending of useActionState
    cMutation,   \* the CREATE_CLASH mutation in flight, if any: its variables.input
    cSent,       \* history: the inputs of all mutations sent
    cOutcome,    \* history: what the last mutation did
    cLocation,   \* the route redirect() navigated to, if any
    cSubmits,    \* number of submissions so far
    cSettled     \* history: number of mutations that have settled

createVars ==
    <<cPc, cFormData, cState, cPending, cMutation, cSent, cOutcome, cLocation, cSubmits,
      cSettled>>

vars == <<filterVars, hookVars, viewVars, createVars>>

----------------------------------------------------------------------------
(* Bounds of the model *)

MaxTermLen == 2
MaxClashes == 2
MaxReloads == 3
MaxSubmits == 2

----------------------------------------------------------------------------
(* Strings *)

Null == <<>>
Some(x) == <<x>>

Alphabet == {"a", "b", "A", " "}

RECURSIVE StringsOfLen(_)
StringsOfLen(n) ==
    IF n = 0 THEN {<<>>}
    ELSE {Append(s, c) : s \in StringsOfLen(n - 1), c \in Alphabet}

StringsUpTo(n) == UNION {StringsOfLen(k) : k \in 0..n}

\* String.prototype.toLowerCase, character by character
LowerChar(c) == IF c = "A" THEN "a" ELSE c
toLowerCase(s) == [i \in 1..Len(s) |-> LowerChar(s[i])]

\* String.prototype.trim: drops leading and trailing whitespace
RECURSIVE trimStart(_)
trimStart(s) ==
    IF s # <<>> /\ Head(s) = " " THEN trimStart(Tail(s)) ELSE s

RECURSIVE trimEnd(_)
trimEnd(s) ==
    IF s # <<>> /\ s[Len(s)] = " " THEN trimEnd(SubSeq(s, 1, Len(s) - 1)) ELSE s

trim(s) == trimEnd(trimStart(s))

\* String.prototype.includes
includes(s, t) ==
    \E i \in 0..(Len(s) - Len(t)) : SubSeq(s, i + 1, i + Len(t)) = t

----------------------------------------------------------------------------
(* The backend *)

\* Values a nullable string field of a clash can hold
FieldValues == {Null, Some(<<"A", "b">>), Some(<<"a", " ">>), Some(<<"b", "A">>)}

Clash(i, t, d) == [id |-> i, title |-> t, description |-> d]

\* data.clashes: records with distinct ids, in backend order
Backends ==
    UNION {[1..n -> [title : FieldValues, description : FieldValues]] : n \in 0..MaxClashes}

WithIds(fields) == [i \in 1..Len(fields) |-> Clash(i, fields[i].title, fields[i].description)]

\* getClient().query either resolves with data or rejects with some cause
Causes == {"ECONNREFUSED", "GraphQL error: internal"}
QueryOutcomes == {[ok |-> TRUE]} \cup {[ok |-> FALSE, cause |-> c] : c \in Causes}

----------------------------------------------------------------------------
(* src/domain/clashes/actions.ts *)

Returned(v) == [threw |-> FALSE, value |-> v]
Thrown(m) == [threw |-> TRUE, message |-> m]

\* the predicate without the description branch
clashMatchesTitleOnly(clash, needle) ==
    IF clash.title = Null THEN FALSE
    ELSE includes(toLowerCase(clash.title[1]), needle)

\* the predicate of data.clashes.filter
clashMatches(clash, needle) ==
    LET titleMatch ==
            IF clash.title = Null THEN FALSE
            ELSE includes(toLowerCase(clash.title[1]), needle)
        descriptionMatch ==
            IF clash.description = Null THEN FALSE
            ELSE includes(toLowerCase(clash.description[1]), needle)
    IN  titleMatch \/ descriptionMatch

\* filterClashes whose early return tests only !term, not term.trim() === ''
filterClashesNoTrimTest(term, outcome, data) ==
    IF ~outcome.ok
    THEN Thrown("Failed to filter clashes")
    ELSE IF term = <<>>
         THEN Returned(data)
         ELSE LET needle == trim(toLowerCase(term)) \* const searchTerm
              \* data.clashes.filter keeps the matching records in their order
              IN  Returned(SelectSeq(data, LAMBDA clash : clashMatches(clash, needle)))

\* filterClashes that rethrows the backend's error
filterClashesLeaky(term, outcome, data) ==
    IF ~outcome.ok
    THEN Thrown(outcome.cause)
    ELSE IF term = <<>> \/ trim(term) = <<>>
         THEN Returned(data)
         ELSE LET needle == trim(toLowerCase(term)) \* const searchTerm
              \* data.clashes.filter keeps the matching records in their order
              IN  Returned(SelectSeq(data, LAMBDA clash : clashMatches(clash, needle)))

filterClashes(term, outcome, data) ==
    IF ~outcome.ok
    THEN Thrown("Failed to filter clashes")
    ELSE IF term = <<>> \/ trim(term) = <<>>
         THEN Returned(data)
         ELSE LET needle == trim(toLowerCase(term)) \* const searchTerm
              \* data.clashes.filter keeps the matching records in their order
              IN  Returned(SelectSeq(data, LAMBDA clash : clashMatches(clash, needle)))

----------------------------------------------------------------------------
(* src/app/api/clashes/route.ts *)

\* searchParams.get('term') ?? ''
termParam(param) == IF param = Null THEN <<>> ELSE param[1]

\* NextResponse.json(body, {status})
Json(status, body) == [status |-> status, body |-> body]

\* GET with a count of the whole backend list instead of the filtered one
GETCountAll(param, outcome, data) ==
    LET result == filterClashes(termParam(param), outcome, data)
    IN  IF ~result.threw
        THEN Returned(Json(200, [success |-> TRUE, data |-> result.value,
                                 count |-> Len(data)]))
        ELSE Returned(Json(500, [success |-> FALSE, error |-> "Failed to fetch clashes",
                                 message |-> result.message]))

\* GET without its catch block: the failure of filterClashes escapes
GETNoCatch(param, outcome, data) ==
    LET result == filterClashes(termParam(param), outcome, data)
    IN  IF ~result.threw
        THEN Returned(Json(200, [success |-> TRUE, data |-> result.value,
                                 count |-> Len(result.value)]))
        ELSE Thrown(result.message)

\* the whole body is inside try/catch: GET always returns a response
GET(param, outcome, data) ==
    LET term == termParam(param)
        result == filterClashes(term, outcome, data)
    IN  IF ~result.threw
        THEN Returned(Json(200, [success |-> TRUE, data |-> result.value,
                                 count |-> Len(result.value)]))
        ELSE Returned(Json(500, [success |-> FALSE, error |-> "Failed to fetch clashes",
                                 message |-> result.message]))

----------------------------------------------------------------------------
(* One call of the server action, or one request to the route handler *)

Terms == StringsUpTo(MaxTermLen)

NoResult == [threw |-> FALSE, value |-> <<>>]
NoResponse == Thrown("no request")

\* the hook is not in use
HookIdle ==
    /\ hookVersion = "route"
    /\ mounted = FALSE
    /\ clashes = <<>>
    /\ loading = TRUE
    /\ error = Null
    /\ inflight = {}
    /\ issued = 0
    /\ replies = <<>>

\* the list view is not in use
ViewIdle ==
    /\ filterVariant = "explicit"
    /\ searchTerm = <<>>
    /\ timer = Null
    /\ unmounted = FALSE
    /\ causes = <<>>
    /\ burst = [typed |-> FALSE, fired |-> <<>>]

\* ClashCreate before any submission: initialState, nothing pending
CreateIdle ==
    /\ cPc = "idle"
    /\ cFormData = Null
    /\ cState = [message |-> "", errors |-> <<>>, values |-> Null]
    /\ cPending = FALSE
    /\ cMutation = Null
    /\ cSent = <<>>
    /\ cOutcome = Null
    /\ cLocation = Null
    /\ cSubmits = 0
    /\ cSettled = 0

InitFilter ==
    /\ HookIdle
    /\ ViewIdle
    /\ CreateIdle
    /\ backend \in {WithIds(f) : f \in Backends}
    /\ fTerm \in {Null} \cup {Some(t) : t \in Terms}
    /\ fOutcome \in QueryOutcomes
    /\ fPc = "start"
    /\ fResult = NoResult
    /\ fResponse = NoResponse

\* a caller awaits filterClashes(term)
CallFilterClashes ==
    /\ fPc = "start"
    /\ fTerm # Null
    /\ fResult' = filterClashes(fTerm[1], fOutcome, backend)
    /\ fPc' = "action"
    /\ UNCHANGED <<backend, fTerm, fOutcome, fResponse>>
    /\ UNCHANGED <<hookVars, viewVars, createVars>>

\* a client requests GET /api/clashes[?term=...]
CallGET ==
    /\ fPc = "start"
    /\ fResponse' = GET(fTerm, fOutcome, backend)
    /\ fResult' = filterClashes(termParam(fTerm), fOutcome, backend)
    /\ fPc' = "route"
    /\ UNCHANGED <<backend, fTerm, fOutcome>>
    /\ UNCHANGED <<hookVars, viewVars, createVars>>

NextFilter == CallFilterClashes \/ CallGET

SpecFilter == InitFilter /\ [][NextFilter]_vars

----------------------------------------------------------------------------
(* src/domain/clashes/use-clashes.ts, both versions *)

\* url.searchParams.set('term', searchTerm.trim()) only if searchTerm.trim() is truthy
urlParam(term) ==
    IF trim(term) # <<>> THEN Some(trim(term)) ELSE Null

\* What the await of one fetchClashes call can resume with: the transport
\* rejects, or the server ran GET (route version) or filterClashes (direct
\* version) against the backend.
Rejected == [kind |-> "rejected", message |-> "Failed to fetch"]

Replies(version, term, clashList) ==
    {Rejected} \cup
    IF version = "route"
    THEN {[kind |-> "http", response |-> GET(urlParam(term), o, clashList)] :
             o \in QueryOutcomes}
    ELSE {[kind |-> "action", result |-> filterClashes(term, o, clashList)] :
             o \in QueryOutcomes}

\* `HTTP error! status: ${response.status}`
HttpErrorMessage(status) == "HTTP error! status: " \o ToString(status)

\* a try block without the `if (!response.ok)` test
tryAfterAwaitNoStatusCheck(reply) ==
    IF reply.kind = "rejected" THEN Thrown(reply.message)
    ELSE IF reply.kind = "action" THEN reply.result
    ELSE IF reply.response.threw THEN Thrown(HttpErrorMessage(500))
    ELSE LET response == reply.response.value
         IN  IF ~response.body.success
             THEN Thrown(IF response.body.message # ""
                         THEN response.body.message
                         ELSE "Failed to fetch clashes")
             ELSE Returned(response.body.data)

\* a try block that takes a response that is not ok for an empty result
tryAfterAwaitFailureAsEmpty(reply) ==
    IF reply.kind = "rejected" THEN Thrown(reply.message)
    ELSE IF reply.kind = "action" THEN reply.result
    ELSE IF reply.response.threw THEN Thrown(HttpErrorMessage(500))
    ELSE LET response == reply.response.value
         IN  IF ~(response.status \in 200..299)
             THEN Returned(<<>>)
             ELSE IF ~response.body.success
                  THEN Thrown(IF response.body.message # ""
                              THEN response.body.message
                              ELSE "Failed to fetch clashes")
                  ELSE Returned(response.body.data)

\* The rest of the try block after the await: the exception it throws, or the
\* list it passes to setClashes.
tryAfterAwait(reply) ==
    IF reply.kind = "rejected" THEN Thrown(reply.message)
    ELSE IF reply.kind = "action" THEN reply.result
    ELSE IF reply.response.threw THEN Thrown(HttpErrorMessage(500))
    ELSE LET response == reply.response.value
         IN  IF ~(response.status \in 200..299)
             THEN Thrown(HttpErrorMessage(response.status))
             ELSE IF ~response.body.success
                  THEN Thrown(IF response.body.message # ""
                              THEN response.body.message
                              ELSE "Failed to fetch clashes")
                  ELSE Returned(response.body.data)

\* fetchClashes with setLoading(false) as the last statement of the try block
afterAwaitNoFinally(reply, prev) ==
    LET outcome == tryAfterAwait(reply)
    IN  IF outcome.threw
        THEN [clashes |-> <<>>, error |-> Some(outcome.message), loading |-> prev.loading]
        ELSE [clashes |-> outcome.value, error |-> prev.error, loading |-> FALSE]

\* fetchClashes whose catch block does not call setClashes([])
afterAwaitKeepsList(reply, prev) ==
    LET outcome == tryAfterAwait(reply)
    IN  IF outcome.threw
        THEN [clashes |-> prev.clashes, error |-> Some(outcome.message), loading |-> FALSE]
        ELSE [clashes |-> outcome.value, error |-> prev.error, loading |-> FALSE]

\* try / catch / finally of fetchClashes from the await on: the hook's state
\* after the call, given the state prev it resumed in
afterAwait(reply, prev) ==
    LET outcome == tryAfterAwait(reply)
    IN  IF outcome.threw
        THEN [clashes |-> <<>>, error |-> Some(outcome.message), loading |-> FALSE]
        ELSE [clashes |-> outcome.value, error |-> prev.error, loading |-> FALSE]

\* fetchClashes up to its await: setLoading(true); setError(null); the request leaves
fetchStart(term) ==
    /\ issued' = issued + 1
    /\ loading' = TRUE
    /\ error' = Null
    /\ inflight' = inflight \cup {[id |-> issued + 1, term |-> term]}
    /\ UNCHANGED <<hookVersion, clashes, replies, backend>>

\* fetchClashes from its await to its end
fetchSettle(call) ==
    \E reply \in Replies(hookVersion, call.term, backend) :
        LET after == afterAwait(reply, [clashes |-> clashes, error |-> error,
                                        loading |-> loading])
        IN  /\ clashes' = after.clashes
            /\ error' = after.error
            /\ loading' = after.loading
            /\ inflight' = inflight \ {call}
            /\ replies' = replies @@ (call.id :> reply)
            /\ UNCHANGED <<hookVersion, issued, backend>>

----------------------------------------------------------------------------
(* The hook with an arbitrary caller of reload *)

SampleBackend ==
    WithIds(<<[title |-> Some(<<"A", "b">>), description |-> Null],
              [title |-> Null, description |-> Some(<<"a", " ">>)]>>)

ReloadTerms == {<<>>, <<"a">>, <<"a", "b">>, <<"b", " ">>, <<"b", "a">>}

FilterIdle ==
    /\ fTerm = Null
    /\ fOutcome = [ok |-> TRUE]
    /\ fPc = "start"
    /\ fResult = NoResult
    /\ fResponse = NoResponse

InitHook ==
    /\ FilterIdle
    /\ ViewIdle
    /\ CreateIdle
    /\ backend = SampleBackend
    /\ hookVersion \in {"route", "direct"}
    /\ mounted = FALSE
    /\ clashes = <<>>
    /\ loading = TRUE
    /\ error = Null
    /\ inflight = {}
    /\ issued = 0
    /\ replies = <<>>

\* useEffect(() => { fetchClashes(); }, [fetchClashes])
InitialLoad ==
    /\ ~mounted
    /\ mounted' = TRUE
    /\ fetchStart(<<>>)
    /\ UNCHANGED <<fTerm, fOutcome, fPc, fResult, fResponse, viewVars, createVars>>

\* a caller invokes reload(term)
Reload ==
    /\ mounted
    /\ issued < MaxReloads
    /\ \E term \in ReloadTerms : fetchStart(term)
    /\ UNCHANGED <<mounted, fTerm, fOutcome, fPc, fResult, fResponse, viewVars, createVars>>

\* the response of one outstanding call arrives
Settle ==
    /\ \E call \in inflight : fetchSettle(call)
    /\ UNCHANGED <<mounted, fTerm, fOutcome, fPc, fResult, fResponse, viewVars, createVars>>

NextHook == InitialLoad \/ Reload \/ Settle

SpecHook == InitHook /\ [][NextHook]_vars

----------------------------------------------------------------------------
(* The list view: ClashList with ClashFilter (either version) and the hook, *)
(* src/components/clash-list/clash-list.tsx and                            *)
(* src/components/clash-filter/clash-filter.tsx                            *)

Debounced == filterVariant = "debounced"

\* ClashList returns the error panel, without ClashFilter, when error is set
FilterShown == mounted /\ ~unmounted /\ error = Null

\* debounce: setTimeout(() => func(...args), wait); user tells whether a change of
\* searchTerm is waiting to be passed to onFilter
Scheduled(term, user) == Some([term |-> term, user |-> user])

\* The effect of ClashFilter runs again after a render of ClashList:
\* handleFilter is a new function, so debouncedFilter is a new debounce: the
\* cleanup cancels the pending call and the effect schedules searchTerm anew.
\* (The explicit version has no effect and no timer.)
afterRender(variant, pending, term) ==
    IF variant = "debounced"
    THEN Scheduled(term, pending # Null /\ pending[1].user)
    ELSE Null

\* ClashFilter mounts: useState(''), and its effect runs for the first time
afterFilterMount(variant) ==
    IF variant = "debounced" THEN Scheduled(<<>>, FALSE) ELSE Null

SkeletonCount == 6

\* if (error): a string is truthy unless it is empty
truthy(err) == err # Null /\ err[1] # ""

\* a caption that always uses the plural
captionAlwaysPlural(n) == "Showing " \o ToString(n) \o " clashes"

\* Showing {clashes.length} clash{clashes.length !== 1 ? 'es' : ''}
caption(n) == "Showing " \o ToString(n) \o " clash" \o (IF n # 1 THEN "es" ELSE "")

\* a ClashList whose grid is rendered while loading too
ClashListRenderGridWhileLoading(err, isLoading, list) ==
    IF truthy(err)
    THEN [views |-> {"error"}, filter |-> FALSE, skeletons |-> 0, cards |-> <<>>,
          caption |-> Null]
    ELSE [views |-> (IF isLoading THEN {"skeleton"} ELSE {})
                    \cup (IF ~isLoading /\ Len(list) = 0 THEN {"empty"} ELSE {})
                    \cup (IF Len(list) > 0 THEN {"grid"} ELSE {}),
          filter |-> TRUE,
          skeletons |-> IF isLoading THEN SkeletonCount ELSE 0,
          cards |-> IF Len(list) > 0 THEN list ELSE <<>>,
          caption |-> IF ~isLoading /\ Len(list) > 0
                      THEN Some(caption(Len(list))) ELSE Null]

\* what ClashList returns: the error panel alone, or the filter section
\* followed by each block whose condition holds
ClashListRender(err, isLoading, list) ==
    IF truthy(err)
    THEN [views |-> {"error"}, filter |-> FALSE, skeletons |-> 0, cards |-> <<>>,
          caption |-> Null]
    ELSE [views |-> (IF isLoading THEN {"skeleton"} ELSE {})
                    \cup (IF ~isLoading /\ Len(list) = 0 THEN {"empty"} ELSE {})
                    \cup (IF ~isLoading /\ Len(list) > 0 THEN {"grid"} ELSE {}),
          filter |-> TRUE,
          skeletons |-> IF isLoading THEN SkeletonCount ELSE 0,
          cards |-> IF ~isLoading /\ Len(list) > 0 THEN list ELSE <<>>,
          caption |-> IF ~isLoading /\ Len(list) > 0
                      THEN Some(caption(Len(list))) ELSE Null]

ViewTerms == ReloadTerms

InitView ==
    /\ FilterIdle
    /\ CreateIdle
    /\ backend = SampleBackend
    /\ hookVersion \in {"route", "direct"}
    /\ mounted = FALSE
    /\ clashes = <<>>
    /\ loading = TRUE
    /\ error = Null
    /\ inflight = {}
    /\ issued = 0
    /\ replies = <<>>
    /\ filterVariant \in {"explicit", "debounced"}
    /\ searchTerm = <<>>
    /\ timer = Null
    /\ unmounted = FALSE
    /\ causes = <<>>
    /\ burst = [typed |-> FALSE, fired |-> <<>>]

\* first render: the effect of ClashFilter, then the initial-load effect of the hook
ViewMount ==
    /\ ~mounted
    /\ mounted' = TRUE
    /\ fetchStart(<<>>)
    /\ causes' = Append(causes, "mount")
    /\ timer' = afterFilterMount(filterVariant)
    /\ UNCHANGED <<filterVariant, searchTerm, unmounted, burst>>
    /\ UNCHANGED <<fTerm, fOutcome, fPc, fResult, fResponse, createVars>>

\* an input whose onChange also passes the new value to onFilter
TypeTextFilters ==
    /\ FilterShown
    /\ ~loading
    /\ \E t \in ViewTerms \ {searchTerm} :
          /\ searchTerm' = t
          /\ IF Debounced
             THEN /\ timer' = Scheduled(t, TRUE)
                  /\ UNCHANGED <<hookVars, backend, causes>>
             ELSE /\ issued < MaxReloads
                  /\ fetchStart(t)
                  /\ causes' = Append(causes, "search")
                  /\ UNCHANGED <<mounted, timer>>
    /\ burst' = [typed |-> TRUE, fired |-> <<>>]
    /\ UNCHANGED <<filterVariant, unmounted>>
    /\ UNCHANGED <<fTerm, fOutcome, fPc, fResult, fResponse, createVars>>

\* onChange of the input (disabled while loading): setSearchTerm(e.target.value)
TypeText ==
    /\ FilterShown
    /\ ~loading
    /\ \E t \in ViewTerms \ {searchTerm} :
          /\ searchTerm' = t
          /\ timer' = IF Debounced THEN Scheduled(t, TRUE) ELSE Null
    /\ burst' = [typed |-> TRUE, fired |-> <<>>]
    /\ UNCHANGED <<filterVariant, unmounted, causes>>
    /\ UNCHANGED <<hookVars, filterVars, createVars>>

\* explicit version: the Search button (disabled while loading): handleSearch
ClickSearch ==
    /\ ~Debounced
    /\ FilterShown
    /\ ~loading
    /\ issued < MaxReloads
    /\ fetchStart(searchTerm)
    /\ causes' = Append(causes, "search")
    /\ burst' = [burst EXCEPT !.fired = Append(@, searchTerm)]
    /\ UNCHANGED <<filterVariant, searchTerm, timer, unmounted>>
    /\ UNCHANGED <<mounted, fTerm, fOutcome, fPc, fResult, fResponse, createVars>>

\* explicit version: Enter in the input (disabled while loading): handleKeyPress
PressEnter ==
    /\ ~Debounced
    /\ FilterShown
    /\ ~loading
    /\ issued < MaxReloads
    /\ fetchStart(searchTerm)
    /\ causes' = Append(causes, "enter")
    /\ burst' = [burst EXCEPT !.fired = Append(@, searchTerm)]
    /\ UNCHANGED <<filterVariant, searchTerm, timer, unmounted>>
    /\ UNCHANGED <<mounted, fTerm, fOutcome, fPc, fResult, fResponse, createVars>>

\* the Clear button, rendered when searchTerm is not empty and never disabled:
\* handleClear. The explicit version also calls onFilter('').
ClickClear ==
    /\ FilterShown
    /\ searchTerm # <<>>
    /\ searchTerm' = <<>>
    /\ IF Debounced
       THEN /\ timer' = Scheduled(<<>>, TRUE)
            /\ burst' = [typed |-> TRUE, fired |-> <<>>]
            /\ UNCHANGED <<hookVars, backend, causes>>
       ELSE /\ issued < MaxReloads
            /\ fetchStart(<<>>)
            /\ causes' = Append(causes, "clear")
            /\ burst' = [typed |-> TRUE, fired |-> <<<<>>>>]
            /\ UNCHANGED <<mounted, timer>>
    /\ UNCHANGED <<filterVariant, unmounted>>
    /\ UNCHANGED <<fTerm, fOutcome, fPc, fResult, fResponse, createVars>>

\* the Try Again button of the error panel: reload(''); error becomes null and
\* ClashFilter mounts again
ClickRetry ==
    /\ mounted /\ ~unmounted
    /\ error # Null
    /\ issued < MaxReloads
    /\ fetchStart(<<>>)
    /\ causes' = Append(causes, "retry")
    /\ searchTerm' = <<>>
    /\ timer' = afterFilterMount(filterVariant)
    /\ burst' = [typed |-> FALSE, fired |-> <<>>]
    /\ UNCHANGED <<filterVariant, unmounted>>
    /\ UNCHANGED <<mounted, fTerm, fOutcome, fPc, fResult, fResponse, createVars>>

\* debounced version: the pending setTimeout fires: onFilter(term), that is
\* reload(term). ClashList renders again only if setLoading(true) changed loading.
DebounceFires ==
    /\ Debounced
    /\ timer # Null
    /\ issued < MaxReloads
    /\ fetchStart(timer[1].term)
    /\ causes' = Append(causes, IF timer[1].user THEN "debounce" ELSE "effect")
    /\ timer' = IF loading THEN Null ELSE afterRender(filterVariant, Null, searchTerm)
    /\ burst' = [burst EXCEPT !.fired = Append(@, timer[1].term)]
    /\ UNCHANGED <<filterVariant, searchTerm, unmounted>>
    /\ UNCHANGED <<mounted, fTerm, fOutcome, fPc, fResult, fResponse, createVars>>

\* a ClashList that keeps ClashFilter mounted beside the error panel
ViewSettleKeepsFilter ==
    /\ mounted
    /\ \E call \in inflight :
          IF unmounted
          THEN /\ inflight' = inflight \ {call}
               /\ \E reply \in Replies(hookVersion, call.term, backend) :
                     replies' = replies @@ (call.id :> reply)
               /\ UNCHANGED <<hookVersion, clashes, loading, error, issued, backend>>
               /\ UNCHANGED <<searchTerm, timer, burst>>
          ELSE /\ fetchSettle(call)
               /\ timer' = afterRender(filterVariant, timer, searchTerm)
               /\ UNCHANGED <<searchTerm, burst>>
    /\ UNCHANGED <<filterVariant, unmounted, causes>>
    /\ UNCHANGED <<mounted, fTerm, fOutcome, fPc, fResult, fResponse, createVars>>

\* the response of one outstanding call arrives; ClashList renders the new
\* state: with an error ClashFilter is unmounted (its cleanup cancels the timer)
ViewSettle ==
    /\ mounted
    /\ \E call \in inflight :
          IF unmounted
          THEN /\ inflight' = inflight \ {call}
               /\ \E reply \in Replies(hookVersion, call.term, backend) :
                     replies' = replies @@ (call.id :> reply)
               /\ UNCHANGED <<hookVersion, clashes, loading, error, issued, backend>>
               /\ UNCHANGED <<searchTerm, timer, burst>>
          ELSE /\ fetchSettle(call)
               /\ searchTerm' = IF error' # Null THEN <<>> ELSE searchTerm
               /\ timer' = IF error' # Null THEN Null
                           ELSE afterRender(filterVariant, timer, searchTerm)
               /\ burst' = IF error' # Null THEN [typed |-> FALSE, fired |-> <<>>]
                           ELSE burst
    /\ UNCHANGED <<filterVariant, unmounted, causes>>
    /\ UNCHANGED <<mounted, fTerm, fOutcome, fPc, fResult, fResponse, createVars>>

\* an effect without cleanup: the pending call survives the unmount
ViewUnmountNoCancel ==
    /\ mounted /\ ~unmounted
    /\ unmounted' = TRUE
    /\ UNCHANGED <<filterVariant, searchTerm, timer, causes, burst>>
    /\ UNCHANGED <<hookVars, filterVars, createVars>>

\* the user leaves the page: the cleanup of the effect cancels the pending call
ViewUnmount ==
    /\ mounted /\ ~unmounted
    /\ unmounted' = TRUE
    /\ timer' = Null
    /\ UNCHANGED <<filterVariant, searchTerm, causes, burst>>
    /\ UNCHANGED <<hookVars, filterVars, createVars>>

NextView ==
    \/ ViewMount
    \/ TypeText
    \/ ClickSearch
    \/ PressEnter
    \/ ClickClear
    \/ ClickRetry
    \/ DebounceFires
    \/ ViewSettle
    \/ ViewUnmount

SpecView == InitView /\ [][NextView]_vars

----------------------------------------------------------------------------
(* Create-clash schema and server action: createClashSchema and createClash *)

TitleMin == 1
TitleMax == 100
DescriptionMin == 10
LocationMin == 1
AddressMin == 1
DateMin == 1
PeerIdMin == 1

Fields ==
    {"title", "description", "location", "address", "date", "pictureUrl",
     "participantIds", "createdByPeerId"}

\* a string of n characters
Rep(n) == [i \in 1..n |-> "x"]

\* z.string() on a value that is not a string: formData.get of a missing field is null
InvalidType == "Expected string, received null"

\* z.string().min(n, message)
minIssues(v, n, message) ==
    IF v = Null THEN <<InvalidType>>
    ELSE IF Len(v[1]) < n THEN <<message>> ELSE <<>>

\* title: z.string().min(1, ...).max(100, ...)
titleIssues(v) ==
    IF v = Null THEN <<InvalidType>>
    ELSE (IF Len(v[1]) < TitleMin THEN <<"Title is required">> ELSE <<>>)
         \o (IF Len(v[1]) > TitleMax THEN <<"Title too long">> ELSE <<>>)

\* description accepted from 9 characters on
descriptionIssuesOffByOne(v) ==
    IF v = Null THEN <<InvalidType>>
    ELSE IF Len(v[1]) < DescriptionMin - 1
         THEN <<"Description must be at least 10 characters">> ELSE <<>>

\* description: z.string().min(10, ...)
descriptionIssues(v) ==
    minIssues(v, DescriptionMin, "Description must be at least 10 characters")

\* z.string().url(): the string parses as a URL. Modelled by the scheme rule
\* of the URL parser: a letter, then letters, digits, "+", "-", ".", then ":".
Letters == {"a", "b", "h", "l", "n", "o", "p", "r", "s", "t", "u", "x"}
SchemeChars == Letters \cup {"1", "2", "+", "-", "."}

isUrl(str) ==
    \E i \in 2..Len(str) :
        /\ str[i] = ":"
        /\ str[1] \in Letters
        /\ \A j \in 2..(i - 1) : str[j] \in SchemeChars

urlIssues(v) ==
    IF v = Null THEN <<InvalidType>>
    ELSE IF isUrl(v[1]) THEN <<>> ELSE <<"Must be a valid URL">>

\* String.prototype.split(',')
RECURSIVE split(_, _)
split(str, sep) ==
    IF \E i \in 1..Len(str) : str[i] = sep
    THEN LET i == CHOOSE k \in 1..Len(str) :
                      str[k] = sep /\ \A j \in 1..(k - 1) : str[j] # sep
         IN  <<SubSeq(str, 1, i - 1)>> \o split(SubSeq(str, i + 1, Len(str)), sep)
    ELSE <<str>>

\* formValues.participantIds ? split(',').map(trim).filter(Boolean) : []
parseParticipantIds(v) ==
    IF v = Null \/ v[1] = <<>> THEN <<>>
    ELSE LET parts == split(v[1], ",")
             trimmed == [i \in 1..Len(parts) |-> trim(parts[i])]
         IN  SelectSeq(trimmed, LAMBDA id : id # <<>>)

\* the issues of each field of the schema
issues(formValues, field) ==
    CASE field = "title" -> titleIssues(formValues.title)
      [] field = "description" -> descriptionIssues(formValues.description)
      [] field = "location" ->
            minIssues(formValues.location, LocationMin, "Location is required")
      [] field = "address" ->
            minIssues(formValues.address, AddressMin, "Address is required")
      [] field = "date" -> minIssues(formValues.date, DateMin, "Date is required")
      [] field = "pictureUrl" -> urlIssues(formValues.pictureUrl)
      [] field = "participantIds" -> <<>>
      [] field = "createdByPeerId" ->
            minIssues(formValues.createdByPeerId, PeerIdMin, "Valid peer ID required")

\* validatedFields.error.flatten().fieldErrors: the fields with issues only
fieldErrors(formValues) ==
    [f \in {g \in Fields : issues(formValues, g) # <<>>} |-> issues(formValues, f)]

\* createClashSchema.safeParse({...})
safeParse(formValues) ==
    LET errors == fieldErrors(formValues)
    IN  IF DOMAIN errors # {}
        THEN [success |-> FALSE, errors |-> errors]
        ELSE [success |-> TRUE,
              data |-> [title |-> formValues.title[1],
                        description |-> formValues.description[1],
                        location |-> formValues.location[1],
                        address |-> formValues.address[1],
                        date |-> formValues.date[1],
                        pictureUrl |-> formValues.pictureUrl[1],
                        participantIds |-> parseParticipantIds(formValues.participantIds),
                        createdByPeerId |-> formValues.createdByPeerId[1]]]

ValidationFailed(errors, formValues) ==
    [errors |-> errors, message |-> "Validation failed. Please check your inputs.",
     values |-> Some(formValues)]

CreateFailed(formValues) ==
    [errors |-> <<>>, message |-> "Failed to create clash. Please try again.",
     values |-> Some(formValues)]

\* createClash that does not echo the values back on a validation failure
createClashStartNoValues(formValues) ==
    LET validatedFields == safeParse(formValues)
    IN  IF ~validatedFields.success
        THEN [mutate |-> Null,
              return |-> Some([errors |-> validatedFields.errors,
                               message |-> "Validation failed. Please check your inputs.",
                               values |-> Null])]
        ELSE [mutate |-> Some(validatedFields.data), return |-> Null]

\* createClash up to its await: it returns the validation errors, or sends the
\* mutation with validatedFields.data as input
createClashStart(formValues) ==
    LET validatedFields == safeParse(formValues)
    IN  IF ~validatedFields.success
        THEN [mutate |-> Null,
              return |-> Some(ValidationFailed(validatedFields.errors, formValues))]
        ELSE [mutate |-> Some(validatedFields.data), return |-> Null]

\* what getClient().mutate does: resolves with data (with or without an id) or rejects
MutationOutcomes ==
    {[kind |-> "data", id |-> Some(<<"4", "2">>)],
     [kind |-> "data", id |-> Null],
     [kind |-> "rejected", cause |-> "Network error"]}

\* data?.createClash?.id is truthy
hasId(outcome) == outcome.kind = "data" /\ outcome.id # Null /\ outcome.id[1] # <<>>

\* `/clashes/${data.createClash.id}`
detailPath(id) == <<"/clashes/">> \o id

\* redirect(path) of next/navigation returns never: it throws NEXT_REDIRECT,
\* which the framework turns into the navigation if it leaves the action
redirect(path) == [threw |-> TRUE, message |-> "NEXT_REDIRECT", path |-> path]

\* the try block of createClash from the await on
createClashTry(outcome, formValues) ==
    IF outcome.kind = "rejected" THEN Thrown(outcome.cause)
    ELSE IF hasId(outcome) THEN redirect(detailPath(outcome.id[1]))
    ELSE Returned(CreateFailed(formValues))

\* createClash whose catch block returns the failure without the values
createClashAfterMutateCatchNoValues(outcome, formValues) ==
    LET tried == createClashTry(outcome, formValues)
    IN  IF tried.threw
        THEN [redirect |-> Null,
              return |-> Some([errors |-> <<>>,
                               message |-> "Failed to create clash. Please try again.",
                               values |-> Null])]
        ELSE [redirect |-> Null, return |-> Some(tried.value)]

\* createClash from its await to its end: `catch { return ... }` catches
\* whatever the try block throws, the NEXT_REDIRECT of redirect() included, so
\* nothing leaves the action and no navigation happens
createClashAfterMutate(outcome, formValues) ==
    LET tried == createClashTry(outcome, formValues)
    IN  IF tried.threw
        THEN [redirect |-> Null, return |-> Some(CreateFailed(formValues))]
        ELSE [redirect |-> Null, return |-> Some(tried.value)]

----------------------------------------------------------------------------
(* The create form: ClashCreate with useActionState(createClash, initialState) *)

ValidForm ==
    [title |-> Some(<<"x">>),
     description |-> Some(Rep(DescriptionMin)),
     location |-> Some(<<"x">>),
     address |-> Some(<<"x">>),
     date |-> Some(<<"x">>),
     pictureUrl |-> Some(<<"h", "t", "t", "p", "s", ":", "/", "/", "x">>),
     participantIds |-> Null,
     createdByPeerId |-> Some(<<"1">>)]

\* other values of each field: around the limits of the schema, missing, empty
Alternatives(field) ==
    CASE field = "title" ->
            {Null, Some(<<>>), Some(<<" ">>), Some(Rep(TitleMax)), Some(Rep(TitleMax + 1))}
      [] field = "description" ->
            {Null, Some(<<>>), Some(Rep(DescriptionMin - 1)), Some(Rep(DescriptionMin + 1))}
      [] field = "pictureUrl" ->
            {Null, Some(<<>>), Some(<<":", "x">>),
             Some(<<"n", "o", "t", "-", "a", "-", "u", "r", "l">>)}
      [] field = "participantIds" ->
            {Some(<<>>), Some(<<"1", ",", " ", "2">>), Some(<<",", " ", "1", ",", ",">>)}
      [] OTHER -> {Null, Some(<<>>)}

\* the submissions: the valid form with one field changed, and three forms
\* with several invalid fields
FormDatas ==
    {ValidForm}
    \cup UNION {{[ValidForm EXCEPT ![f] = v] : v \in Alternatives(f)} : f \in Fields}
    \cup {[f \in Fields |-> Null],
          [f \in Fields |-> Some(<<>>)],
          [ValidForm EXCEPT !.title = Some(Rep(TitleMax + 1)),
                            !.description = Some(Rep(DescriptionMin - 1))]}

InitCreate ==
    /\ FilterIdle
    /\ backend = <<>>
    /\ HookIdle
    /\ ViewIdle
    /\ CreateIdle

\* a form whose fields and submit button stay enabled while pending
SubmitFormWhilePending ==
    /\ cPc # "redirected"
    /\ cSubmits < MaxSubmits
    /\ \E formData \in FormDatas : cFormData' = Some(formData)
    /\ cPending' = TRUE
    /\ cPc' = "validating"
    /\ cSubmits' = cSubmits + 1
    /\ UNCHANGED <<cState, cMutation, cSent, cOutcome, cLocation, cSettled>>
    /\ UNCHANGED <<filterVars, hookVars, viewVars>>

\* the user submits the form (the submit button is disabled while pending):
\* formAction runs createClash with the form's data
SubmitForm ==
    /\ cPc \in {"idle", "invalid", "failed"}
    /\ ~cPending
    /\ cSubmits < MaxSubmits
    /\ \E formData \in FormDatas : cFormData' = Some(formData)
    /\ cPending' = TRUE
    /\ cPc' = "validating"
    /\ cSubmits' = cSubmits + 1
    /\ UNCHANGED <<cState, cMutation, cSent, cOutcome, cLocation, cSettled>>
    /\ UNCHANGED <<filterVars, hookVars, viewVars>>

\* createClash runs up to its await
ServerValidate ==
    /\ cPc = "validating"
    /\ LET step == createClashStart(cFormData[1])
       IN  IF step.mutate = Null
           THEN /\ cState' = step.return[1]
                /\ cPending' = FALSE
                /\ cPc' = "invalid"
                /\ UNCHANGED <<cMutation, cSent>>
           ELSE /\ cMutation' = step.mutate
                /\ cSent' = Append(cSent, step.mutate[1])
                /\ cPc' = "submitting"
                /\ UNCHANGED <<cState, cPending>>
    /\ UNCHANGED <<cFormData, cOutcome, cLocation, cSubmits, cSettled>>
    /\ UNCHANGED <<filterVars, hookVars, viewVars>>

\* the mutation settles and createClash runs to its end
MutationSettles ==
    /\ cPc = "submitting"
    /\ \E outcome \in MutationOutcomes :
          LET step == createClashAfterMutate(outcome, cFormData[1])
          IN  /\ cOutcome' = Some(outcome)
              /\ IF step.redirect # Null
                 THEN /\ cLocation' = step.redirect
                      /\ cPc' = "redirected"
                      /\ UNCHANGED cState
                 ELSE /\ cState' = step.return[1]
                      /\ cPc' = "failed"
                      /\ UNCHANGED cLocation
    /\ cMutation' = Null
    /\ cPending' = FALSE
    /\ cSettled' = cSettled + 1
    /\ UNCHANGED <<cFormData, cSent, cSubmits>>
    /\ UNCHANGED <<filterVars, hookVars, viewVars>>

NextCreate == SubmitForm \/ ServerValidate \/ MutationSettles

SpecCreate == InitCreate /\ [][NextCreate]_vars

----------------------------------------------------------------------------
(* Properties of filterClashes and GET, checked under SpecFilter *)

\* a record of the backend list appears in the returned list (ids are distinct)
AppearsIn(clash, list) == \E j \in 1..Len(list) : list[j].id = clash.id

\* lowercase(field) contains needle; an absent field is a non-match
FieldContains(field, needle) ==
    field # Null /\ includes(toLowerCase(field[1]), needle)

FilterReturned == fPc = "action" /\ ~fResult.threw

\* C2 as stated: C appears in filterClashes(T) iff T = '' or the lowercased
\* title or description contains lowercase(trim(T)); an absent field is a
\* non-match.
C2_MatchIffAsStated ==
    FilterReturned =>
        \A i \in 1..Len(backend) :
            AppearsIn(backend[i], fResult.value) <=>
                \/ fTerm[1] = <<>>
                \/ FieldContains(backend[i].title, toLowerCase(trim(fTerm[1])))
                \/ FieldContains(backend[i].description, toLowerCase(trim(fTerm[1])))

\* C2 amended: C appears in filterClashes(T) iff trim(T) = '' or the
\* lowercased title or description contains lowercase(trim(T)); an absent
\* field is a non-match, so for a term that is not blank a record with an
\* absent field appears only if its other field matches.
C2_MatchIff ==
    FilterReturned =>
        \A i \in 1..Len(backend) :
            AppearsIn(backend[i], fResult.value) <=>
                \/ trim(fTerm[1]) = <<>>
                \/ FieldContains(backend[i].title, toLowerCase(trim(fTerm[1])))
                \/ FieldContains(backend[i].description, toLowerCase(trim(fTerm[1])))

\* an upper-case term kept a record with an absent title by its description
\* and dropped a record whose fields are both absent
C2_Witness ==
    /\ FilterReturned
    /\ fTerm[1] = <<"A", " ">>
    /\ Len(backend) = 2
    /\ backend[1].title = Null /\ backend[1].description = Null
    /\ backend[2].title = Null /\ backend[2].description = Some(<<"a", " ">>)
    /\ Len(fResult.value) = 1 /\ fResult.value[1].id = 2

\* C3: for an empty or whitespace-only term filterClashes returns the backend
\* list unchanged, same records in the same order.
C3_BlankTermReturnsAll ==
    (FilterReturned /\ trim(fTerm[1]) = <<>>) => fResult.value = backend

C3_Witness ==
    /\ FilterReturned
    /\ fTerm[1] = <<" ", " ">>
    /\ Len(backend) >= 2
    /\ backend[1].title = Null /\ backend[1].description = Null
    /\ fResult.value = backend

\* C4: when the list query fails, filterClashes throws one generic failure
\* whose message is the same for every cause of the backend.
C4_GenericFailure ==
    (fPc = "action" /\ ~fOutcome.ok) => fResult = Thrown("Failed to filter clashes")

C4_Witness ==
    /\ fPc = "action"
    /\ ~fOutcome.ok /\ fOutcome.cause = "ECONNREFUSED"
    /\ fResult.threw

\* C5: GET always returns a response; when filterClashes fails the response
\* has status 500 and the failure envelope with the cause's message.
C5_GetNeverThrows ==
    fPc = "route" =>
        /\ ~fResponse.threw
        /\ fResult.threw =>
              fResponse.value =
                  Json(500, [success |-> FALSE, error |-> "Failed to fetch clashes",
                             message |-> fResult.message])

C5_Witness ==
    /\ fPc = "route"
    /\ ~fOutcome.ok
    /\ ~fResponse.threw /\ fResponse.value.status = 500

\* C6: when filterClashes succeeds GET answers 200 with {success: true, data,
\* count}: data is the list filterClashes returned for the request's term
\* ('' when the parameter is absent) and count is its length.
C6_GetSuccessEnvelope ==
    (fPc = "route" /\ fOutcome.ok) =>
        LET data == filterClashes(IF fTerm = Null THEN <<>> ELSE fTerm[1],
                                  fOutcome, backend).value
        IN  /\ ~fResponse.threw
            /\ fResponse.value =
                  Json(200, [success |-> TRUE, data |-> data, count |-> Len(data)])

\* a request with a term that drops a record of a two-record backend
C6_Witness ==
    /\ fPc = "route" /\ fOutcome.ok /\ fTerm # Null
    /\ Len(backend) = 2
    /\ ~fResponse.threw /\ fResponse.value.status = 200
    /\ fResponse.value.body.count = 1

----------------------------------------------------------------------------
(* Properties of the hook, checked under SpecHook *)

\* what a settled call got back, read as the caller of the hook would
ReplyFailed(reply) ==
    \/ reply.kind = "rejected"
    \/ reply.kind = "action" /\ reply.result.threw
    \/ reply.kind = "http" /\
          (reply.response.threw
           \/ ~(reply.response.value.status \in 200..299)
           \/ ~reply.response.value.body.success)

ReplyData(reply) ==
    IF reply.kind = "action" THEN reply.result.value
    ELSE reply.response.value.body.data

ReplyMessage(reply) ==
    IF reply.kind = "rejected" THEN reply.message
    ELSE IF reply.kind = "action" THEN reply.result.message
    ELSE IF ~(reply.response.value.status \in 200..299)
         THEN IF reply.response.value.status = 500
              THEN "HTTP error! status: 500" ELSE "HTTP error!"
         ELSE IF reply.response.value.body.message # ""
              THEN reply.response.value.body.message
              ELSE "Failed to fetch clashes"

\* the call with this id is the one that settles in the step
Settles(call) == call \in inflight /\ ~(call \in inflight')

\* C1: once every reload has resolved, the hook's clashes and error are those
\* of the reload that was issued last, whatever the order of the responses.
C1_LastReloadWins ==
    (inflight = {} /\ issued >= 2) =>
        LET last == replies[issued]
        IN  IF ReplyFailed(last)
            THEN clashes = <<>> /\ error = Some(ReplyMessage(last))
            ELSE clashes = ReplyData(last) /\ error = Null

\* C8: every reload ends with loading = false, whatever it got back, and
\* loading is false once no reload is outstanding.
C8_LoadingEndsFalse ==
    /\ []((mounted /\ inflight = {}) => loading = FALSE)
    /\ [][(\E call \in inflight : Settles(call)) => loading' = FALSE]_vars

\* three reloads have resolved, one rejected, one answered 500, one successful
C8_Witness ==
    /\ mounted /\ inflight = {} /\ issued >= 3 /\ loading = FALSE
    /\ \E i, j, k \in DOMAIN replies :
          /\ replies[i].kind = "rejected"
          /\ replies[j].kind # "rejected" /\ ReplyFailed(replies[j])
          /\ ~ReplyFailed(replies[k])

\* C9: when a reload succeeds, at its end clashes is the returned data and
\* error is null, also when other reloads overlapped it.
C9_SuccessClearsError ==
    [][\A call \in inflight :
          (Settles(call) /\ ~ReplyFailed(replies'[call.id])) =>
              (clashes' = ReplyData(replies'[call.id]) /\ error' = Null)]_vars

\* C10: when a reload fails, at its end error is the exception's message and
\* clashes is the empty list.
C10_FailureResetsList ==
    [][\A call \in inflight :
          (Settles(call) /\ ReplyFailed(replies'[call.id])) =>
              (error' = Some(ReplyMessage(replies'[call.id])) /\ clashes' = <<>>)]_vars

\* a reload had loaded a non-empty list and a later one, answered 500, emptied it
C10_Witness ==
    /\ error = Some("HTTP error! status: 500")
    /\ clashes = <<>>
    /\ \E id \in DOMAIN replies :
          ~ReplyFailed(replies[id]) /\ ReplyData(replies[id]) # <<>>

----------------------------------------------------------------------------
(* Properties of the list view, checked under SpecView *)

\* what a user does to start a reload
UserCauses == {"search", "enter", "clear", "retry", "debounce"}

\* C7: the first fetchClashes call is the automatic initial load, and every
\* later one is started by an explicit action of the user (a filter-input
\* action or the retry button), never by the view itself.
C7_OnlyInitialLoadIsAutomatic ==
    \A i \in 1..Len(causes) :
        IF i = 1 THEN causes[i] = "mount" ELSE causes[i] \in UserCauses

----------------------------------------------------------------------------
(* Properties of the create flow, checked under SpecCreate *)

\* createClash has run to its end after its mutation settled
AfterMutation == cPc \in {"failed", "redirected"}

GenericFailureMessage == "Failed to create clash. Please try again."

\* C11: when the create mutation succeeds and returns a created id, the flow
\* ends in a redirect to /clashes/<id>, and not in the generic failure state.
C11_SuccessRedirects ==
    (AfterMutation /\ hasId(cOutcome[1])) =>
        /\ cLocation = Some(detailPath(cOutcome[1].id[1]))
        /\ cState.message # GenericFailureMessage

\* the fields of a submission that the stated rules reject
KnownValidUrls == {<<"h", "t", "t", "p", "s", ":", "/", "/", "x">>}

Present(v) == v # Null

StatedInvalid(formValues) ==
    {f \in Fields :
        \/ f = "title" /\ ~(Present(formValues[f]) /\ Len(formValues[f][1]) >= 1
                                                   /\ Len(formValues[f][1]) <= 100)
        \/ f = "description" /\ ~(Present(formValues[f]) /\ Len(formValues[f][1]) >= 10)
        \/ f \in {"location", "address", "date", "createdByPeerId"}
              /\ ~(Present(formValues[f]) /\ formValues[f][1] # <<>>)
        \/ f = "pictureUrl" /\ ~(Present(formValues[f]) /\ formValues[f][1] \in KnownValidUrls)}

\* C12: when validation fails no mutation is issued, and the returned state
\* holds the error lists keyed by field, the validation message and the raw
\* submitted values.
C12_ValidationFailure ==
    [][(cPc = "validating" /\ StatedInvalid(cFormData[1]) # {}) =>
          /\ cPc' = "invalid"
          /\ cSent' = cSent
          /\ cMutation' = Null
          /\ DOMAIN cState'.errors = StatedInvalid(cFormData[1])
          /\ \A f \in DOMAIN cState'.errors : cState'.errors[f] # <<>>
          /\ cState'.message = "Validation failed. Please check your inputs."
          /\ cState'.values = cFormData]_vars

C12_Witness ==
    /\ cPc = "invalid"
    /\ cSent = <<>>
    /\ cState.values = cFormData
    /\ DOMAIN cState.errors = {"title", "description"}
    /\ cState.errors["title"] = <<"Title too long">>

\* C13: when a validated submission's mutation returns no id, or throws, the
\* returned state holds the generic failure message, an empty errors map and
\* the submitted values unchanged.
C13_MutationFailure ==
    [][(cPc = "submitting" /\ cPc' # "submitting" /\ ~hasId(cOutcome'[1])) =>
          /\ cPc' = "failed"
          /\ cLocation' = cLocation
          /\ cState' = [errors |-> <<>>, message |-> GenericFailureMessage,
                        values |-> cFormData]]_vars

C13_Witness ==
    /\ cPc = "failed"
    /\ cOutcome # Null
    /\ cOutcome[1].kind = "rejected"
    /\ cState = [errors |-> <<>>, message |-> GenericFailureMessage, values |-> cFormData]
    /\ cFormData[1].participantIds # Null

\* C14: a submission is accepted exactly when title has 1 to 100 characters,
\* description at least 10, location, address, date and createdByPeerId are
\* non-empty and pictureUrl is a valid URL; a rejected field gets a field error
\* and no mutation is sent; an accepted submission with participantIds omitted
\* or empty is sent with participantIds = [].
C14_AcceptsIff ==
    [][cPc = "validating" =>
          /\ (cPc' = "submitting") <=> (StatedInvalid(cFormData[1]) = {})
          /\ cPc' # "submitting" =>
                /\ cSent' = cSent
                /\ \A f \in StatedInvalid(cFormData[1]) :
                      f \in DOMAIN cState'.errors /\ cState'.errors[f] # <<>>
          /\ cPc' = "submitting" =>
                /\ cSent' = Append(cSent, cMutation'[1])
                /\ cFormData[1].participantIds \in {Null, Some(<<>>)} =>
                      cMutation'[1].participantIds = <<>>]_vars

C14_Witness ==
    /\ cPc = "submitting"
    /\ cFormData[1].participantIds = Some(<<>>)
    /\ cMutation # Null
    /\ cMutation[1].participantIds = <<>>
    /\ cSent = <<cMutation[1]>>

----------------------------------------------------------------------------
(* Properties of the list view, checked under SpecView *)

Rendered == ClashListRender(error, loading, clashes)

\* C15: the list shows exactly one of four views: the error panel if error is
\* set; else the skeleton of six placeholders if loading; else the empty state
\* if the list has no element; else the grid with the caption.
C15_ExactlyOneView ==
    /\ Cardinality(Rendered.views) = 1
    /\ error # Null => Rendered.views = {"error"} /\ Rendered.caption = Null
    /\ (error = Null /\ loading) =>
          /\ Rendered.views = {"skeleton"}
          /\ Rendered.skeletons = 6
          /\ Rendered.caption = Null
    /\ (error = Null /\ ~loading /\ Len(clashes) = 0) =>
          Rendered.views = {"empty"} /\ Rendered.caption = Null
    /\ (error = Null /\ ~loading /\ Len(clashes) > 0) =>
          /\ Rendered.views = {"grid"}
          /\ Rendered.cards = clashes
          /\ Rendered.caption # Null

\* a reload is in progress over a list that has elements: the skeleton only
C15_Witness ==
    /\ mounted
    /\ error = Null
    /\ loading
    /\ Len(clashes) > 0
    /\ Rendered.views = {"skeleton"}

\* C16: with N results the caption is "Showing 1 clash" for N = 1 and
\* "Showing N clashes" for N > 1; for N = 0 the empty state is shown, with
\* neither grid nor caption.
C16_Caption ==
    (error = Null /\ ~loading) =>
        /\ Len(clashes) = 1 => Rendered.caption = Some("Showing 1 clash")
        /\ Len(clashes) = 2 => Rendered.caption = Some("Showing 2 clashes")
        /\ Len(clashes) > 1 =>
              Rendered.caption = Some("Showing " \o ToString(Len(clashes)) \o " clashes")
        /\ Len(clashes) = 0 =>
              /\ "empty" \in Rendered.views
              /\ "grid" \notin Rendered.views
              /\ Rendered.caption = Null

C16_Witness ==
    /\ mounted
    /\ error = Null
    /\ ~loading
    /\ Len(clashes) = 1
    /\ Rendered.caption = Some("Showing 1 clash")


\* the cause of the fetchClashes call started by this step, and the call
StartsCall == issued' # issued
NewCause == causes'[Len(causes')]
NewCall == CHOOSE call \in inflight' : call.id = issued'

\* C17: in the explicit version a keystroke changes only searchTerm and never
\* invokes onFilter; onFilter is invoked only by Search (button or Enter), with
\* the current searchTerm, and by Clear, which resets searchTerm to empty and
\* invokes onFilter('').
C17_ExplicitTrigger ==
    [][~Debounced =>
          /\ (~StartsCall /\ searchTerm' # searchTerm /\ error' = Null) =>
                UNCHANGED <<hookVars, timer, causes>>
          /\ StartsCall =>
                /\ NewCause \in {"mount", "search", "enter", "clear", "retry"}
                /\ NewCause \in {"search", "enter"} =>
                      NewCall.term = searchTerm /\ searchTerm' = searchTerm
                /\ NewCause = "clear" =>
                      NewCall.term = <<>> /\ searchTerm' = <<>>]_vars

\* two keystrokes' worth of text typed, and no call but the initial load
C17_Witness ==
    /\ ~Debounced
    /\ FilterShown
    /\ searchTerm = <<"a", "b">>
    /\ causes = <<"mount">>
    /\ issued = 1

\* C18: in the explicit version, while loading is true no filter action
\* (typing, Search, Enter, Clear) takes effect: no call is started and
\* searchTerm stays as it is while the filter is shown.
C18_NoFilterActionWhileLoading ==
    [][(~Debounced /\ FilterShown /\ loading) =>
          /\ ~StartsCall
          /\ searchTerm' = searchTerm \/ error' # Null]_vars

\* C19: in the debounced version, after a burst of keystrokes onFilter is
\* invoked once, with the term of the last keystroke.
C19_OncePerBurst ==
    (Debounced /\ burst.typed) =>
        /\ Len(burst.fired) <= 1
        /\ \A i \in 1..Len(burst.fired) : burst.fired[i] = searchTerm

\* C20: in the debounced version a pending call is cancelled by the unmount of
\* the input and by a newer keystroke: onFilter is never invoked after the
\* unmount, nor with a term that a later keystroke has replaced.
C20_CancelledNeverFires ==
    /\ [][(Debounced /\ StartsCall /\ NewCause \in {"debounce", "effect"}) =>
             /\ ~unmounted
             /\ FilterShown
             /\ NewCall.term = searchTerm]_vars
    /\ [](Debounced /\ (unmounted \/ error # Null) => timer = Null)
    /\ [](timer # Null => timer[1].term = searchTerm)

\* a typed term whose pending call was cancelled by the unmount
C20_Witness ==
    /\ Debounced
    /\ unmounted
    /\ burst.typed
    /\ burst.fired = <<>>
    /\ searchTerm # <<>>
    /\ timer = Null

\* C21: while the list view shows the error panel (error is set) no reload is
\* started except by the retry button, which calls reload(''); in both
\* versions of the filter input.
C21_NoAutomaticRetry ==
    [][(mounted /\ ~unmounted /\ error # Null /\ StartsCall) =>
          /\ NewCause = "retry"
          /\ NewCall.term = <<>>]_vars

\* the retry button was used after a failure that followed a typed search
C21_Witness ==
    /\ Debounced
    /\ Len(causes) >= 3
    /\ causes[Len(causes)] = "retry"
    /\ error = Null
    /\ loading
    /\ [id |-> issued, term |-> <<>>] \in inflight

----------------------------------------------------------------------------
(* Properties of the hook under overlapping reloads, checked under SpecHook *)

\* C22: once the hook has mounted, loading is true exactly when at least one
\* reload request is in flight, whatever the order of the responses.
C22_LoadingIffInFlight ==
    mounted => (loading <=> inflight # {})

\* C24: error set implies clashes empty: a list with elements is never held
\* together with an error message, whatever the order of the responses.
C24_ErrorImpliesEmptyList ==
    error # Null => clashes = <<>>

----------------------------------------------------------------------------
(* Properties of the list view under its own callers, checked under SpecView *)

\* C23: in the list view with the explicit filter input at most one reload
\* request is in flight at any time, the initial load included.
C23_AtMostOneInFlight ==
    ~Debounced => Cardinality(inflight) <= 1

\* C25: in the list view with the debounced filter input each change of
\* searchTerm, and the mount, is followed by at most one invocation of
\* onFilter, and a render caused by the hook's state alone schedules none.
C25_NoInvocationWithoutKeystroke ==
    /\ [](Debounced => Len(burst.fired) <= 1)
    /\ [][(Debounced /\ FilterShown /\ timer = Null /\ searchTerm' = searchTerm) =>
             timer' = Null]_vars

----------------------------------------------------------------------------
(* The two versions of the hook compared *)

\* texts that only the failure envelope of GET, or the backend, carries
EnvelopeTexts ==
    {"Failed to filter clashes", "Failed to fetch clashes", "Unknown error"} \cup Causes

\* C26: in the route version of the hook every failure of filterClashes ends
\* with error "HTTP error! status: 500"; the message of the failure envelope
\* and the cause text of the backend never become the hook's error.
C26_FailureIsStatusMessage ==
    /\ [][hookVersion = "route" =>
             \A call \in inflight :
                (/\ Settles(call)
                 /\ replies'[call.id].kind = "http"
                 /\ ~replies'[call.id].response.value.body.success) =>
                    /\ error' = Some("HTTP error! status: 500")
                    /\ clashes' = <<>>]_vars
    /\ []((hookVersion = "route" /\ error # Null) => error[1] \notin EnvelopeTexts)

C26_Witness ==
    /\ hookVersion = "route"
    /\ error = Some("HTTP error! status: 500")
    /\ inflight = {}
    /\ replies[issued].kind = "http"
    /\ replies[issued].response.value.status = 500
    /\ replies[issued].response.value.body.message = "Failed to filter clashes"

\* the hook's state when the await of its one reload resumes
AfterFetchStart == [clashes |-> <<>>, error |-> Null, loading |-> TRUE]

\* the end state of the direct version, given the result of filterClashes(term)
DirectEnd == afterAwait([kind |-> "action", result |-> fResult], AfterFetchStart)

\* the end state of the route version for the same term, outcome and backend
RouteEnd ==
    afterAwait([kind |-> "http",
                response |-> GET(urlParam(fTerm[1]), fOutcome, backend)],
               AfterFetchStart)

\* C27: for one reload against the same backend, with any term and any
\* outcome of the backend, the route version and the direct version of the
\* hook end with the same clashes and the same loading, and error is null in
\* one exactly when it is null in the other.
C27_VersionsAgree ==
    fPc = "action" =>
        /\ RouteEnd.clashes = DirectEnd.clashes
        /\ RouteEnd.loading = DirectEnd.loading
        /\ (RouteEnd.error = Null) <=> (DirectEnd.error = Null)

\* a term with a space in front, which the route version trims before sending,
\* that keeps one of two records
C27_Witness ==
    /\ fPc = "action"
    /\ fOutcome.ok
    /\ fTerm = Some(<<" ", "a">>)
    /\ Len(backend) = 2
    /\ Len(fResult.value) = 1
    /\ RouteEnd.clashes = fResult.value
    /\ RouteEnd.error = Null

----------------------------------------------------------------------------
(* The create form as a whole, checked under SpecCreate *)

MutationsInFlight == Len(cSent) - cSettled

EndsInvalid ==
    /\ cPc' = "invalid"
    /\ cState'.message = "Validation failed. Please check your inputs."
    /\ DOMAIN cState'.errors # {}
    /\ cSent' = cSent
    /\ cLocation' = cLocation

EndsRedirected ==
    /\ cPc' = "redirected"
    /\ cLocation' # Null
    /\ cState' = cState

EndsFailed ==
    /\ cPc' = "failed"
    /\ cState'.message = GenericFailureMessage
    /\ cState'.errors = <<>>
    /\ cLocation' = cLocation

\* C28: while a submission is pending the fields and the submit button are
\* disabled: no submission starts, at most one createClash mutation is in
\* flight, and each submission ends in exactly one of validation errors,
\* redirect, or the generic failure state.
C28_OneSubmissionAtATime ==
    /\ [](MutationsInFlight <= 1)
    /\ [](MutationsInFlight = 1 => (cPending /\ cPc = "submitting"))
    /\ [](cPending <=> cPc \in {"validating", "submitting"})
    /\ [][cPending => cSubmits' = cSubmits]_vars
    /\ [][(cPending /\ ~cPending') =>
             /\ EndsInvalid \/ EndsRedirected \/ EndsFailed
             /\ ~(EndsInvalid /\ EndsRedirected)
             /\ ~(EndsInvalid /\ EndsFailed)
             /\ ~(EndsRedirected /\ EndsFailed)]_vars

\* the second submission's mutation is in flight after the first has ended
C28_Witness ==
    /\ cSubmits = 2
    /\ cPending
    /\ Len(cSent) = 2
    /\ cSettled = 1
    /\ MutationsInFlight = 1
    /\ cState.message = GenericFailureMessage

====
